---- MODULE Spec2Model ----
(***************************************************************************)
(* Model of ai_vision_core.py: a single-shot pipeline that records audio,  *)
(* transcribes it with a local whisper.cpp executable, captures the screen *)
(* and runs OCR, queries the OpenAI API and shows the answer as a macOS    *)
(* notification.                                                           *)
(*                                                                         *)
(* Text is a sequence of chunks.  A chunk is one character (" ", "a",      *)
(* the double quote) or one fixed literal of the script, kept whole.       *)
(* External collaborators (audio device, whisper, screencapture, PIL,      *)
(* tesseract, OpenAI, osascript) are nondeterministic: each action draws   *)
(* the collaborator's outcome and logs it in env.  osascript and           *)
(* screencapture are assumed launchable (they are macOS system binaries);  *)
(* their failure is a non-zero exit status.                                *)
(***************************************************************************)
EXTENDS Integers, Sequences, FiniteSets, TLC

VARIABLES
    pc,             \* position of the script
    env,            \* outcomes of the external collaborators, by call site
    files,          \* temporary files that exist on disk: "wav", "txt", "png"
    created,        \* temporary files this run has created
    txt_content,    \* content of the companion <audio>.txt file
    png_is_image,   \* whether the .png file holds a decodable image
    calls,          \* invocation count of each collaborator
    notifications,  \* osascript invocations, in order
    trace,          \* stages entered, in order
    user_question,  \* main: user_question
    screen_text,    \* main: screen_text
    ai_answer,      \* main: ai_answer
    api_prompt,     \* user-role message sent to the API
    raised,         \* exception propagating out of main's try block
    exit_status,    \* process exit status, -1 while the process runs
    run,            \* 1 for the first execution, 2 for the repeated one
    prev            \* what the first execution did, kept for comparison

vars == <<pc, env, files, created, txt_content, png_is_image, calls,
          notifications, trace, user_question, screen_text, ai_answer,
          api_prompt, raised, exit_status, run, prev>>

-----------------------------------------------------------------------------
(* Bounds *)

MaxQuestionLen == 2
MaxScreenLen == 1
MaxAnswerLen == 2

-----------------------------------------------------------------------------
(* Text *)

DQ == "\""
WhiteSpace == {" "}

Str(chars, n) == UNION {[1..k -> chars] : k \in 0..n}

RECURSIVE LStrip(_)
LStrip(s) ==
    IF s /= <<>> /\ Head(s) \in WhiteSpace THEN LStrip(Tail(s)) ELSE s

RECURSIVE RStrip(_)
RStrip(s) ==
    IF s /= <<>> /\ s[Len(s)] \in WhiteSpace
    THEN RStrip(SubSeq(s, 1, Len(s) - 1))
    ELSE s

\* str.strip()
StripIdentity(s) == s
Strip(s) == RStrip(LStrip(s))

\* str.replace('"', "'")
ReplaceNothing(s) == s
Replace(s) == [i \in 1..Len(s) |-> IF s[i] = DQ THEN "'" ELSE s[i]]

IsBlank(s) == \A i \in 1..Len(s) : s[i] \in WhiteSpace

Range(s) == {s[i] : i \in 1..Len(s)}

-----------------------------------------------------------------------------
(* Collaborator outcomes *)

NoneValue == "<None>"
NoException == "none"

Credentials == {NoneValue, "", "sk-key"}

DeviceOutcomes == {"ok", "PortAudioError"}

WhisperOutcomes ==
    {[returncode |-> rc, wrote |-> TRUE, text |-> t] :
        rc \in {0, 1}, t \in Str({" ", "a"}, MaxQuestionLen)}
    \cup {[returncode |-> rc, wrote |-> FALSE, text |-> <<>>] : rc \in {0, 1}}

ReturnCodes == {0, 1}

OcrOutcomes ==
    {[kind |-> "text", text |-> t] : t \in Str({" ", "a"}, MaxScreenLen)}
    \cup {[kind |-> "TesseractError", text |-> <<>>]}

ApiOutcomes ==
    {[kind |-> "ok", text |-> t] : t \in Str({" ", "a", DQ}, MaxAnswerLen)}
    \cup {[kind |-> "APIError", text |-> t] : t \in Str({"e", DQ}, MaxAnswerLen - 1)}

\* The outcome of a collaborator: the one already logged for this call site,
\* otherwise any of S.
Input(site, S) == IF site \in DOMAIN env THEN {env[site]} ELSE S

Log(site, x) == (site :> x) @@ env

-----------------------------------------------------------------------------
(* Functions of the script *)

\* `if not openai.api_key`
CredentialAlwaysOk(key) == TRUE
CredentialOk(key) == key /= NoneValue /\ key /= ""

ConfigErrorText == <<"OPENAI_API_KEY environment variable not set.">>

ConfigNotification(rc) ==
    [title |-> "AI-Vision Error", subtitle |-> "Configuration Issue",
     body |-> ConfigErrorText, returncode |-> rc]

\* subprocess.run(..., check=c): raises only when check is set and the
\* process exits non-zero.
RunRaisesNever(check, rc) == FALSE
RunRaises(check, rc) == check /\ rc /= 0

ShowNotificationChecked(title, text, rc) ==
    [note |-> [title |-> "AI-Vision", subtitle |-> title, body |-> text,
               returncode |-> rc],
     raised |-> IF RunRaises(TRUE, rc) THEN "CalledProcessError" ELSE NoException]
ShowNotification(title, text, rc) ==
    [note |-> [title |-> "AI-Vision", subtitle |-> title, body |-> text,
               returncode |-> rc],
     raised |-> IF RunRaises(FALSE, rc) THEN "CalledProcessError" ELSE NoException]

ListeningText == <<"Please ask your question now.">>
TranscribingText == <<"Transcribing your question...">>
NoSpeechText == <<"Could not understand audio. Please try again.">>
ConsultingText == <<"Getting an answer based on your screen.">>
AnswerTitle == "Here's your answer!"

\* Image.open on the screenshot file
ImageOpensAlways(is_image) == TRUE
ImageOpens(is_image) == is_image

NoTextMarker == <<"No text was detected on the screen.">>

BuildPromptWithoutMarker(text, question) ==
    <<"CONTEXT FROM SCREEN: ---">> \o text
    \o <<"--- USER'S QUESTION: ", DQ>> \o question \o <<DQ>>
BuildPrompt(text, question) ==
    <<"CONTEXT FROM SCREEN: ---">>
    \o (IF Strip(text) /= <<>> THEN text ELSE NoTextMarker)
    \o <<"--- USER'S QUESTION: ", DQ>> \o question \o <<DQ>>

ErrorPrefix == <<"An error occurred while contacting the AI: ">>

\* the try/except around openai.chat.completions.create
QueryResultPropagating(outcome) ==
    IF outcome.kind = "ok"
    THEN [raised |-> NoException, value |-> Strip(outcome.text)]
    ELSE [raised |-> outcome.kind, value |-> <<>>]
QueryResult(outcome) ==
    IF outcome.kind = "ok"
    THEN [raised |-> NoException, value |-> Strip(outcome.text)]
    ELSE [raised |-> NoException, value |-> ErrorPrefix \o outcome.text]

\* exit status of the interpreter after main
ExitStatusAlwaysZero(exc) == IF exc = NoException THEN 0 ELSE 0
ExitStatus(exc) == IF exc = NoException THEN 0 ELSE 1

\* `if os.path.exists(tmp_audio.name): os.remove(tmp_audio.name)`
CleanupKeepsAudio(fs) == fs
CleanupFiles(fs) == fs \ {"wav"}

-----------------------------------------------------------------------------
(* Initial state *)

NoCalls ==
    [c \in {"record", "whisper", "screencapture", "ocr", "api"} |-> 0]

NoPrev == [trace |-> <<>>, leftover |-> {}, exit_status |-> -1,
           calls |-> NoCalls, notify_failed |-> FALSE]

Init ==
    /\ pc = "start"
    /\ \E c \in Credentials : env = ("credential" :> c)
    /\ files = {}
    /\ created = {}
    /\ txt_content = <<>>
    /\ png_is_image = FALSE
    /\ calls = NoCalls
    /\ notifications = <<>>
    /\ trace = <<>>
    /\ user_question = <<>>
    /\ screen_text = <<>>
    /\ ai_answer = <<>>
    /\ api_prompt = <<>>
    /\ raised = NoException
    /\ exit_status = -1
    /\ run = 1
    /\ prev = NoPrev

-----------------------------------------------------------------------------
(* Steps of the script *)

\* An exception inside main's try block: control goes to the finally clause.
Raise(exc) == pc' = "cleanup" /\ raised' = exc

\* lines 32-35
CheckCredential ==
    /\ pc = "start"
    /\ pc' = IF CredentialOk(env["credential"]) THEN "main" ELSE "config_error"
    /\ UNCHANGED <<env, files, created, txt_content, png_is_image, calls,
                   notifications, trace, user_question, screen_text,
                   ai_answer, api_prompt, raised, exit_status, run, prev>>

\* lines 36-39
ConfigError ==
    /\ pc = "config_error"
    /\ \E rc \in ReturnCodes :
          notifications' = Append(notifications, ConfigNotification(rc))
    /\ exit_status' = 1
    /\ pc' = "exited"
    /\ UNCHANGED <<env, files, created, txt_content, png_is_image, calls,
                   trace, user_question, screen_text, ai_answer, api_prompt,
                   raised, run, prev>>

\* line 117: NamedTemporaryFile(suffix=".wav", delete=False)
CreateAudioFile ==
    /\ pc = "main"
    /\ files' = files \cup {"wav"}
    /\ created' = created \cup {"wav"}
    /\ pc' = "record_notify"
    /\ UNCHANGED <<env, txt_content, png_is_image, calls, notifications,
                   trace, user_question, screen_text, ai_answer, api_prompt,
                   raised, exit_status, run, prev>>

\* lines 46-49
RecordNotify ==
    /\ pc = "record_notify"
    /\ trace' = Append(trace, "record")
    /\ \E rc \in ReturnCodes :
          LET n == ShowNotification("Listening...", ListeningText, rc) IN
          /\ notifications' = Append(notifications, n.note)
          /\ IF n.raised /= NoException
             THEN Raise(n.raised)
             ELSE pc' = "record" /\ UNCHANGED raised
    /\ UNCHANGED <<env, files, created, txt_content, png_is_image, calls,
                   user_question, screen_text, ai_answer, api_prompt,
                   exit_status, run, prev>>

\* lines 50-53
RecordAudioIgnoringError ==
    /\ pc = "record"
    /\ calls' = [calls EXCEPT !["record"] = @ + 1]
    /\ \E d \in Input("device", DeviceOutcomes) : env' = Log("device", d)
    /\ pc' = "transcribe_notify"
    /\ UNCHANGED <<files, created, txt_content, png_is_image, notifications,
                   trace, user_question, screen_text, ai_answer, api_prompt,
                   raised, exit_status, run, prev>>
RecordAudio ==
    /\ pc = "record"
    /\ calls' = [calls EXCEPT !["record"] = @ + 1]
    /\ \E d \in Input("device", DeviceOutcomes) :
          /\ env' = Log("device", d)
          /\ IF d = "ok"
             THEN pc' = "transcribe_notify" /\ UNCHANGED raised
             ELSE Raise(d)
    /\ UNCHANGED <<files, created, txt_content, png_is_image, notifications,
                   trace, user_question, screen_text, ai_answer, api_prompt,
                   exit_status, run, prev>>

\* lines 55-58
TranscribeWithoutNotify ==
    /\ pc = "transcribe_notify"
    /\ trace' = Append(trace, "transcribe")
    /\ pc' = "whisper"
    /\ UNCHANGED <<env, files, created, txt_content, png_is_image, calls,
                   notifications, user_question, screen_text, ai_answer,
                   api_prompt, raised, exit_status, run, prev>>
TranscribeNotify ==
    /\ pc = "transcribe_notify"
    /\ trace' = Append(trace, "transcribe")
    /\ \E rc \in ReturnCodes :
          LET n == ShowNotification("Thinking...", TranscribingText, rc) IN
          /\ notifications' = Append(notifications, n.note)
          /\ IF n.raised /= NoException
             THEN Raise(n.raised)
             ELSE pc' = "whisper" /\ UNCHANGED raised
    /\ UNCHANGED <<env, files, created, txt_content, png_is_image, calls,
                   user_question, screen_text, ai_answer, api_prompt,
                   exit_status, run, prev>>

\* lines 59-60: subprocess.run(command, ..., check=True)
RunWhisper ==
    /\ pc = "whisper"
    /\ calls' = [calls EXCEPT !["whisper"] = @ + 1]
    /\ \E w \in Input("whisper", WhisperOutcomes) :
          /\ env' = Log("whisper", w)
          /\ IF w.wrote
             THEN /\ files' = files \cup {"txt"}
                  /\ created' = created \cup {"txt"}
                  /\ txt_content' = w.text
             ELSE UNCHANGED <<files, created, txt_content>>
          /\ IF RunRaises(TRUE, w.returncode)
             THEN Raise("CalledProcessError")
             ELSE pc' = "read_transcription" /\ UNCHANGED raised
    /\ UNCHANGED <<png_is_image, notifications, trace, user_question,
                   screen_text, ai_answer, api_prompt, exit_status, run, prev>>

\* lines 63-70 and main line 123
ReadTranscriptionRemovingAudio ==
    /\ pc = "read_transcription"
    /\ IF "txt" \in files
       THEN /\ user_question' = Strip(txt_content)
            /\ files' = files \ {"txt", "wav"}
            /\ pc' = "check_question"
            /\ UNCHANGED raised
       ELSE /\ Raise("FileNotFoundError")
            /\ UNCHANGED <<user_question, files>>
    /\ UNCHANGED <<env, created, txt_content, png_is_image, calls,
                   notifications, trace, screen_text, ai_answer, api_prompt,
                   exit_status, run, prev>>
ReadTranscription ==
    /\ pc = "read_transcription"
    /\ IF "txt" \in files
       THEN /\ user_question' = Strip(txt_content)
            /\ files' = files \ {"txt"}
            /\ pc' = "check_question"
            /\ UNCHANGED raised
       ELSE /\ Raise("FileNotFoundError")
            /\ UNCHANGED <<user_question, files>>
    /\ UNCHANGED <<env, created, txt_content, png_is_image, calls,
                   notifications, trace, screen_text, ai_answer, api_prompt,
                   exit_status, run, prev>>

\* line 124
CheckQuestion ==
    /\ pc = "check_question"
    /\ pc' = IF user_question = <<>> THEN "no_speech" ELSE "capture"
    /\ UNCHANGED <<env, files, created, txt_content, png_is_image, calls,
                   notifications, trace, user_question, screen_text,
                   ai_answer, api_prompt, raised, exit_status, run, prev>>

\* lines 125-126
NoSpeechExitsWithoutCleanup ==
    /\ pc = "no_speech"
    /\ \E rc \in ReturnCodes :
          LET n == ShowNotification("Error", NoSpeechText, rc) IN
          /\ notifications' = Append(notifications, n.note)
          /\ raised' = n.raised
    /\ exit_status' = 0
    /\ pc' = "exited"
    /\ UNCHANGED <<env, files, created, txt_content, png_is_image, calls,
                   trace, user_question, screen_text, ai_answer, api_prompt,
                   run, prev>>
NoSpeech ==
    /\ pc = "no_speech"
    /\ \E rc \in ReturnCodes :
          LET n == ShowNotification("Error", NoSpeechText, rc) IN
          /\ notifications' = Append(notifications, n.note)
          /\ raised' = n.raised
    /\ pc' = "cleanup"
    /\ UNCHANGED <<env, files, created, txt_content, png_is_image, calls,
                   trace, user_question, screen_text, ai_answer, api_prompt,
                   exit_status, run, prev>>

\* lines 72-77: NamedTemporaryFile(suffix=".png", delete=False), then
\* subprocess.run(["screencapture", ...]) without check
CaptureScreen ==
    /\ pc = "capture"
    /\ trace' = Append(trace, "capture")
    /\ files' = files \cup {"png"}
    /\ created' = created \cup {"png"}
    /\ calls' = [calls EXCEPT !["screencapture"] = @ + 1]
    /\ \E rc \in Input("screencapture", ReturnCodes) :
          /\ env' = Log("screencapture", rc)
          /\ png_is_image' = (rc = 0)
          /\ IF RunRaises(FALSE, rc)
             THEN Raise("CalledProcessError")
             ELSE pc' = "open_image" /\ UNCHANGED raised
    /\ UNCHANGED <<txt_content, notifications, user_question, screen_text,
                   ai_answer, api_prompt, exit_status, run, prev>>

\* line 80
OpenImage ==
    /\ pc = "open_image"
    /\ IF ImageOpens(png_is_image)
       THEN pc' = "ocr" /\ UNCHANGED raised
       ELSE Raise("UnidentifiedImageError")
    /\ UNCHANGED <<env, files, created, txt_content, png_is_image, calls,
                   notifications, trace, user_question, screen_text,
                   ai_answer, api_prompt, exit_status, run, prev>>

\* lines 81-83 and main line 129
RunOcr ==
    /\ pc = "ocr"
    /\ calls' = [calls EXCEPT !["ocr"] = @ + 1]
    /\ \E o \in Input("ocr", OcrOutcomes) :
          /\ env' = Log("ocr", o)
          /\ IF o.kind = "text"
             THEN /\ screen_text' = o.text
                  /\ pc' = "query_notify"
                  /\ UNCHANGED raised
             ELSE /\ Raise(o.kind)
                  /\ UNCHANGED screen_text
    /\ UNCHANGED <<files, created, txt_content, png_is_image, notifications,
                   trace, user_question, ai_answer, api_prompt, exit_status,
                   run, prev>>

\* lines 85-88
QueryNotify ==
    /\ pc = "query_notify"
    /\ trace' = Append(trace, "query")
    /\ \E rc \in ReturnCodes :
          LET n == ShowNotification("Consulting AI...", ConsultingText, rc) IN
          /\ notifications' = Append(notifications, n.note)
          /\ IF n.raised /= NoException
             THEN Raise(n.raised)
             ELSE pc' = "api" /\ UNCHANGED raised
    /\ UNCHANGED <<env, files, created, txt_content, png_is_image, calls,
                   user_question, screen_text, ai_answer, api_prompt,
                   exit_status, run, prev>>

\* lines 90-113 and main line 132
CallApiRetrying ==
    /\ pc = "api"
    /\ api_prompt' = BuildPrompt(screen_text, user_question)
    /\ \E a \in Input("api", ApiOutcomes) :
          LET r == QueryResult(a) IN
          /\ env' = Log("api", a)
          /\ calls' = [calls EXCEPT !["api"] = @ + (IF a.kind = "ok" THEN 1 ELSE 2)]
          /\ ai_answer' = r.value
          /\ pc' = "final_notify"
    /\ UNCHANGED <<files, created, txt_content, png_is_image, notifications,
                   trace, user_question, screen_text, raised, exit_status,
                   run, prev>>
CallApi ==
    /\ pc = "api"
    /\ calls' = [calls EXCEPT !["api"] = @ + 1]
    /\ api_prompt' = BuildPrompt(screen_text, user_question)
    /\ \E a \in Input("api", ApiOutcomes) :
          LET r == QueryResult(a) IN
          /\ env' = Log("api", a)
          /\ IF r.raised /= NoException
             THEN Raise(r.raised) /\ UNCHANGED ai_answer
             ELSE /\ ai_answer' = r.value
                  /\ pc' = "final_notify"
                  /\ UNCHANGED raised
    /\ UNCHANGED <<files, created, txt_content, png_is_image, notifications,
                   trace, user_question, screen_text, exit_status, run, prev>>

\* lines 135-136
FinalNotify ==
    /\ pc = "final_notify"
    /\ trace' = Append(trace, "notify")
    /\ \E rc \in ReturnCodes :
          LET n == ShowNotification(AnswerTitle, Replace(ai_answer), rc) IN
          /\ notifications' = Append(notifications, n.note)
          /\ raised' = n.raised
    /\ pc' = "cleanup"
    /\ UNCHANGED <<env, files, created, txt_content, png_is_image, calls,
                   user_question, screen_text, ai_answer, api_prompt,
                   exit_status, run, prev>>

\* lines 138-144: the finally clause, then the interpreter exits
Cleanup ==
    /\ pc = "cleanup"
    /\ trace' = Append(trace, "cleanup")
    /\ files' = CleanupFiles(files)
    /\ exit_status' = ExitStatus(raised)
    /\ pc' = "exited"
    /\ UNCHANGED <<env, created, txt_content, png_is_image, calls,
                   notifications, user_question, screen_text, ai_answer,
                   api_prompt, raised, run, prev>>

NotifyFailed == \E i \in 1..Len(notifications) : notifications[i].returncode /= 0

\* What an execution did, apart from the notifications' own outcomes.
Observed ==
    [trace |-> trace, leftover |-> files, exit_status |-> exit_status,
     calls |-> calls, notify_failed |-> NotifyFailed]

\* The script is executed once more against collaborators that behave as
\* they did the first time; only osascript's exit status is free again.
Rerun ==
    /\ pc = "exited"
    /\ run = 1
    /\ run' = 2
    /\ prev' = Observed
    /\ pc' = "start"
    /\ files' = {}
    /\ created' = {}
    /\ txt_content' = <<>>
    /\ png_is_image' = FALSE
    /\ calls' = NoCalls
    /\ notifications' = <<>>
    /\ trace' = <<>>
    /\ user_question' = <<>>
    /\ screen_text' = <<>>
    /\ ai_answer' = <<>>
    /\ api_prompt' = <<>>
    /\ raised' = NoException
    /\ exit_status' = -1
    /\ UNCHANGED env

Next ==
    \/ CheckCredential
    \/ ConfigError
    \/ CreateAudioFile
    \/ RecordNotify
    \/ RecordAudio
    \/ TranscribeNotify
    \/ RunWhisper
    \/ ReadTranscription
    \/ CheckQuestion
    \/ NoSpeech
    \/ CaptureScreen
    \/ OpenImage
    \/ RunOcr
    \/ QueryNotify
    \/ CallApi
    \/ FinalNotify
    \/ Cleanup

Spec == Init /\ [][Next]_vars

\* The script is single-threaded and blocking: it takes its next step as
\* soon as the external call it waits for returns or fails.
SpecLive == Init /\ [][Next]_vars /\ WF_vars(Next)

NextRerun == Next \/ Rerun

SpecRerun == Init /\ [][NextRerun]_vars

TypeOK ==
    /\ pc \in {"start", "config_error", "main", "record_notify", "record",
               "transcribe_notify", "whisper", "read_transcription",
               "check_question", "no_speech", "capture", "open_image", "ocr",
               "query_notify", "api", "final_notify", "cleanup", "exited"}
    /\ files \subseteq created
    /\ created \subseteq {"wav", "txt", "png"}
    /\ exit_status \in {-1, 0, 1}
    /\ run \in {1, 2}

-----------------------------------------------------------------------------
(* Vocabulary of the properties *)

LastNote == notifications[Len(notifications)]

Subtitles == {notifications[i].subtitle : i \in 1..Len(notifications)}

Exited == pc = "exited"

\* transcribe_audio_local has returned a transcription
TranscriptionReturned ==
    /\ calls["whisper"] > 0
    /\ pc \notin {"whisper", "read_transcription"}
    /\ env["whisper"].returncode = 0
    /\ env["whisper"].wrote

TranscriptionBlank == TranscriptionReturned /\ IsBlank(env["whisper"].text)

ScreenshotFailed == calls["screencapture"] > 0 /\ env["screencapture"] /= 0

\* capture_screen_and_ocr has returned or raised
CaptureStageLeft == calls["screencapture"] > 0 /\ pc \notin {"open_image", "ocr"}

OcrFailed == calls["ocr"] > 0 /\ env["ocr"].kind /= "text"

ApiFailed == calls["api"] > 0 /\ env["api"].kind /= "ok"

CredentialMissing == env["credential"] \in {NoneValue, ""}

RecordingFailed == calls["record"] > 0 /\ env["device"] /= "ok"

TranscriptionFailed ==
    /\ calls["whisper"] > 0
    /\ env["whisper"].returncode /= 0 \/ ~env["whisper"].wrote

FatalStageFailure ==
    RecordingFailed \/ TranscriptionFailed \/ ScreenshotFailed \/ OcrFailed

NormalCompletion ==
    /\ Len(notifications) > 0
    /\ LastNote.subtitle = AnswerTitle
    /\ "cleanup" \in Range(trace)

NoSpeechExit ==
    /\ Len(notifications) > 0
    /\ LastNote.subtitle = "Error"
    /\ LastNote.body = NoSpeechText
    /\ "cleanup" \in Range(trace)

-----------------------------------------------------------------------------
(* Properties *)

\* C1: at process exit none of the temporary files created during the run
\* (.wav, .txt, .png) still exists, on every exit path.
C1_NoLeakedFiles == Exited => created \cap files = {}

\* C2: a blank (empty or whitespace-only) transcription ends the run in the
\* no-speech outcome: the "Could not understand audio" notification is
\* emitted and screencapture, OCR and the API are never invoked; whenever
\* the AI query is entered its question is non-empty.
C2_BlankQuestionHalts ==
    /\ TranscriptionBlank =>
          /\ calls["screencapture"] = 0 /\ calls["ocr"] = 0 /\ calls["api"] = 0
          /\ pc \in {"check_question", "no_speech", "cleanup", "exited"}
          /\ pc \in {"cleanup", "exited"} =>
                /\ LastNote.body = NoSpeechText
                /\ "capture" \notin Range(trace)
                /\ "query" \notin Range(trace)
          /\ Exited => NoSpeechExit
    /\ (pc \in {"query_notify", "api"} \/ calls["api"] > 0) =>
          user_question /= <<>> /\ ~IsBlank(user_question)

C2_Witness ==
    /\ Exited
    /\ TranscriptionBlank
    /\ env["whisper"].text /= <<>>

\* C3: when the remote inference call fails, the AI query stage returns the
\* non-empty string made of the error prefix and the error description, the
\* final notification is made from that string and the process exits 0.
C3_ApiErrorAbsorbed ==
    ApiFailed =>
        /\ raised = NoException
        /\ ai_answer = ErrorPrefix \o env["api"].text
        /\ ai_answer /= <<>>
        /\ pc \in {"final_notify", "cleanup", "exited"}
        /\ pc \in {"cleanup", "exited"} =>
              /\ LastNote.subtitle = AnswerTitle
              /\ LastNote.body = Replace(ai_answer)
              /\ trace[Len(trace) - (IF Exited THEN 1 ELSE 0)] = "notify"
        /\ Exited => exit_status = 0

C3_Witness == Exited /\ ApiFailed /\ env["api"].text /= <<>>

\* C4: with the credential absent the process exits non-zero after exactly
\* one notification, the configuration error; no stage runs, no collaborator
\* is invoked and no temporary file is created.
C4_MissingCredentialStopsAll ==
    env["credential"] = NoneValue =>
        /\ trace = <<>>
        /\ calls = NoCalls
        /\ created = {}
        /\ Len(notifications) <= 1
        /\ Exited =>
              /\ exit_status /= 0
              /\ Len(notifications) = 1
              /\ notifications[1].subtitle = "Configuration Issue"
              /\ notifications[1].body = ConfigErrorText

C4_Witness == Exited /\ env["credential"] = NoneValue

C6_OcrFailureAbsorbed ==
    (calls["ocr"] > 0 /\ (OcrFailed \/ env["ocr"].text = <<>>)) =>
        /\ raised = NoException
        /\ screen_text = <<>>
        /\ pc \in {"query_notify", "api", "final_notify", "cleanup", "exited"}
        /\ Exited => calls["api"] = 1 /\ LastNote.subtitle = AnswerTitle

\* C7: once the capture stage has returned or raised, the screenshot file
\* it created no longer exists.
C7_ScreenshotDeleted == CaptureStageLeft => "png" \notin files

\* C8: no run ends silently: at process exit the last notification emitted
\* describes the final outcome (configuration error, final error, or the
\* final answer).
C8_NoSilentExit ==
    Exited =>
        /\ Len(notifications) > 0
        /\ LastNote.subtitle \in {"Configuration Issue", "Error", AnswerTitle}
        /\ exit_status /= 0 => LastNote.subtitle /= AnswerTitle

\* C9: the exit status is 0 exactly on normal completion or the no-speech
\* early exit, and 1 exactly when the credential is missing or a stage
\* (Recording, Transcribing, Capturing) failed fatally.
C9_ExitStatus ==
    Exited =>
        /\ exit_status \in {0, 1}
        /\ exit_status = 0 <=> (NormalCompletion \/ NoSpeechExit)
        /\ exit_status = 1 <=> (CredentialMissing \/ FatalStageFailure)

C9_Witness == Exited /\ exit_status = 1 /\ TranscriptionFailed /\ ~CredentialMissing

\* C10: a failing notification never changes control flow: executed again
\* against the same collaborator outcomes, with osascript's exit statuses
\* chosen afresh, the script enters the same stages, invokes the same
\* collaborators, leaves the same files and exits with the same status.
Behaviour(o) ==
    [trace |-> o.trace, leftover |-> o.leftover,
     exit_status |-> o.exit_status, calls |-> o.calls]

C10_NotificationFailureIgnored ==
    (run = 2 /\ Exited) => Behaviour(Observed) = Behaviour(prev)

C10_Witness ==
    /\ run = 2
    /\ Exited
    /\ prev.notify_failed
    /\ ~NotifyFailed
    /\ Len(notifications) = 4

\* s contains sub as a contiguous piece
Contains(s, sub) ==
    \E i \in 0..(Len(s) - Len(sub)) : SubSeq(s, i + 1, i + Len(sub)) = sub

\* the part of the prompt between the two "---" lines
ContextPart(prompt, question) == SubSeq(prompt, 2, Len(prompt) - Len(question) - 3)

\* C11: when the screen text given to the AI query is empty or
\* whitespace-only, the prompt sent to the API carries the "No text was
\* detected" marker in place of the screen text; otherwise it carries the
\* screen text; in both cases it contains the question.
C11_PromptSentinel ==
    calls["api"] > 0 =>
        /\ IsBlank(screen_text) =>
              /\ ContextPart(api_prompt, user_question) = NoTextMarker
              /\ Contains(api_prompt, NoTextMarker)
        /\ ~IsBlank(screen_text) =>
              /\ ContextPart(api_prompt, user_question) = screen_text
              /\ ~Contains(api_prompt, NoTextMarker)
        /\ Contains(api_prompt, user_question)
        /\ user_question /= <<>>

C11_Witness ==
    /\ calls["api"] > 0
    /\ screen_text /= <<>>
    /\ IsBlank(screen_text)
    /\ Contains(api_prompt, NoTextMarker)

FinalNotes ==
    {i \in 1..Len(notifications) : notifications[i].subtitle = AnswerTitle}

\* C12: the body of the final-answer notification is the answer returned by
\* the AI query with every double quote replaced (by a single quote), and no
\* body handed to osascript at any call site contains a double quote.
C12_BodiesSanitized ==
    /\ \A i \in 1..Len(notifications) : DQ \notin Range(notifications[i].body)
    /\ \A i \in FinalNotes :
          LET body == notifications[i].body IN
          /\ Len(body) = Len(ai_answer)
          /\ \A k \in 1..Len(body) :
                body[k] = (IF ai_answer[k] = DQ THEN "'" ELSE ai_answer[k])

C12_Witness ==
    /\ Exited
    /\ FinalNotes /= {}
    /\ DQ \in Range(ai_answer)
    /\ ~ApiFailed

Pipeline == <<"record", "transcribe", "capture", "query", "notify">>

StagesEntered == SelectSeq(trace, LAMBDA x : x /= "cleanup")

IsPrefix(a, b) == Len(a) <= Len(b) /\ a = SubSeq(b, 1, Len(a))

\* C13: stages run strictly in the order Audio Capture, Local Transcription,
\* Screen Capture + OCR, AI Query, final Notification; a stage is entered
\* only after the one before it has completed successfully.
C13_StagesInOrder ==
    /\ IsPrefix(StagesEntered, Pipeline)
    /\ "transcribe" \in Range(trace) =>
          calls["record"] = 1 /\ env["device"] = "ok"
    /\ "capture" \in Range(trace) =>
          /\ calls["whisper"] = 1
          /\ env["whisper"].returncode = 0 /\ env["whisper"].wrote
          /\ "txt" \notin files
          /\ user_question = Strip(env["whisper"].text)
    /\ "query" \in Range(trace) =>
          /\ calls["screencapture"] = 1 /\ env["screencapture"] = 0
          /\ calls["ocr"] = 1 /\ env["ocr"].kind = "text"
          /\ screen_text = env["ocr"].text
    /\ "notify" \in Range(trace) => calls["api"] = 1
    /\ "cleanup" \in Range(trace) => Exited /\ trace[Len(trace)] = "cleanup"

C13_Witness == Exited /\ StagesEntered = Pipeline

\* The orchestration state the script is in.  The credential check precedes
\* the run: a process that exits on it never leaves Idle.
State ==
    CASE pc \in {"start", "config_error", "main"} -> "Idle"
      [] pc \in {"record_notify", "record"} -> "Recording"
      [] pc \in {"transcribe_notify", "whisper", "read_transcription",
                 "check_question"} -> "Transcribing"
      [] pc = "no_speech" -> "NoSpeechDetected"
      [] pc \in {"capture", "open_image", "ocr"} -> "Capturing"
      [] pc \in {"query_notify", "api"} -> "Querying"
      [] pc = "final_notify" -> "Notifying"
      [] pc \in {"cleanup", "exited"} ->
            IF trace = <<>> THEN "Idle"
            ELSE IF raised /= NoException THEN "Aborted"
            ELSE IF "notify" \in Range(trace) THEN "Done"
            ELSE "NoSpeechDetected"

Transitions ==
    {<<"Idle", "Recording">>, <<"Recording", "Transcribing">>,
     <<"Transcribing", "Capturing">>, <<"Capturing", "Querying">>,
     <<"Querying", "Notifying">>, <<"Notifying", "Done">>,
     <<"Recording", "Aborted">>, <<"Transcribing", "Aborted">>,
     <<"Capturing", "Aborted">>, <<"Transcribing", "NoSpeechDetected">>}

\* C14: the only state transitions of a run are those of the chain
\* Idle -> Recording -> Transcribing -> Capturing -> Querying -> Notifying
\* -> Done, Recording/Transcribing/Capturing -> Aborted and
\* Transcribing -> NoSpeechDetected; Aborted is never entered from Querying
\* or Notifying.
C14_OnlyListedTransitions ==
    [][State' /= State => <<State, State'>> \in Transitions]_vars

C14_Witness == Exited /\ State = "Done" /\ ApiFailed

\* C15: a fatal failure in Recording, Transcribing or Capturing goes
\* straight to the cleanup phase: no later stage is entered, no later
\* collaborator is invoked, and the audio file is removed before exit.
C15_FailureUnwindsToCleanup ==
    /\ RecordingFailed =>
          /\ StagesEntered = SubSeq(Pipeline, 1, 1)
          /\ calls["whisper"] = 0 /\ calls["screencapture"] = 0
          /\ calls["ocr"] = 0 /\ calls["api"] = 0
          /\ pc \in {"cleanup", "exited"}
    /\ TranscriptionFailed =>
          /\ StagesEntered = SubSeq(Pipeline, 1, 2)
          /\ calls["screencapture"] = 0 /\ calls["ocr"] = 0 /\ calls["api"] = 0
          /\ pc \in {"read_transcription", "cleanup", "exited"}
    /\ (ScreenshotFailed \/ OcrFailed) =>
          /\ StagesEntered = SubSeq(Pipeline, 1, 3)
          /\ calls["api"] = 0
          /\ pc \in {"open_image", "cleanup", "exited"}
    /\ (FatalStageFailure /\ Exited) =>
          /\ raised /= NoException
          /\ trace[Len(trace)] = "cleanup"
          /\ "wav" \in created
          /\ "wav" \notin files

C15_Witness == Exited /\ RecordingFailed /\ "wav" \in created

\* transcribe_audio_local has handed a result to main
TranscriptionResultReturned ==
    \/ pc \in {"check_question", "no_speech", "capture", "open_image", "ocr",
               "query_notify", "api", "final_notify"}
    \/ /\ pc \in {"cleanup", "exited"}
       /\ "capture" \in Range(trace) \/ "Error" \in Subtitles

\* C16: Local Transcription returns a result only if whisper exited zero
\* and the companion .txt file exists; if whisper exits non-zero or the
\* file is missing, the stage fails and the run aborts without a
\* transcription.
C16_TranscriptionNeedsExitZeroAndFile ==
    /\ TranscriptionResultReturned =>
          /\ env["whisper"].returncode = 0
          /\ env["whisper"].wrote
          /\ user_question = Strip(env["whisper"].text)
    /\ TranscriptionFailed =>
          /\ ~TranscriptionResultReturned
          /\ user_question = <<>>
          /\ pc \in {"cleanup", "exited"} =>
                raised = (IF env["whisper"].returncode /= 0
                          THEN "CalledProcessError" ELSE "FileNotFoundError")
          /\ Exited => exit_status = 1 /\ State = "Aborted"

C16_Witness ==
    /\ Exited
    /\ calls["whisper"] > 0
    /\ env["whisper"].returncode /= 0
    /\ env["whisper"].wrote

\* C17: on success Local Transcription deletes the companion .txt file and
\* leaves the audio file; from its creation the audio file exists through
\* every stage and is removed only by the cleanup phase.
C17_AudioOwnedByCleanup ==
    /\ TranscriptionReturned => "txt" \in created /\ "txt" \notin files
    /\ ("wav" \in created /\ ~Exited) => "wav" \in files
    /\ State \in {"Recording", "Transcribing"} => "wav" \in files

C17_Witness ==
    /\ pc = "check_question"
    /\ "txt" \in created
    /\ files = {"wav"}

SubtitleSeq == [i \in 1..Len(notifications) |-> notifications[i].subtitle]

Count(sub) ==
    Cardinality({i \in 1..Len(notifications) : notifications[i].subtitle = sub})

ProgressOrder ==
    <<"Listening...", "Thinking...", "Consulting AI...", AnswerTitle>>

\* C18: progress notifications follow the stages: "Listening..." before the
\* recording starts, "Thinking..." after the recording completed and before
\* whisper is invoked, "Consulting AI..." after capture/OCR and before the
\* API call, the final answer after the AI query returned; each at most
\* once per run.
C18_ProgressNotificationsOrdered ==
    /\ \A k \in 1..Len(ProgressOrder) : Count(ProgressOrder[k]) <= 1
    /\ \/ IsPrefix(SubtitleSeq, ProgressOrder)
       \/ SubtitleSeq = SubSeq(ProgressOrder, 1, 2) \o <<"Error">>
       \/ SubtitleSeq = <<"Configuration Issue">>
    /\ calls["record"] > 0 => "Listening..." \in Subtitles
    /\ "Thinking..." \in Subtitles => calls["record"] = 1 /\ env["device"] = "ok"
    /\ calls["whisper"] > 0 => "Thinking..." \in Subtitles
    /\ "Consulting AI..." \in Subtitles =>
          /\ calls["screencapture"] = 1
          /\ calls["ocr"] = 1 /\ env["ocr"].kind = "text"
          /\ pc \notin {"capture", "open_image", "ocr"}
    /\ calls["api"] > 0 => "Consulting AI..." \in Subtitles
    /\ AnswerTitle \in Subtitles => calls["api"] = 1 /\ pc \in {"cleanup", "exited"}

C18_Witness == Exited /\ SubtitleSeq = ProgressOrder

ConfigErrorOutcome ==
    CredentialMissing /\ trace = <<>> /\ exit_status = 1

AbortedOutcome ==
    raised /= NoException /\ exit_status = 1 /\ "cleanup" \in Range(trace)

NoSpeechOutcome == NoSpeechExit /\ raised = NoException /\ exit_status = 0

DoneOutcome == NormalCompletion /\ raised = NoException /\ exit_status = 0

OutcomeCount ==
    (IF ConfigErrorOutcome THEN 1 ELSE 0) + (IF AbortedOutcome THEN 1 ELSE 0)
    + (IF NoSpeechOutcome THEN 1 ELSE 0) + (IF DoneOutcome THEN 1 ELSE 0)

\* C19: provided every external call returns or fails, every run reaches
\* process exit, in exactly one of the outcomes configuration error,
\* Aborted, NoSpeechDetected or Done, and a run that entered main has
\* executed the cleanup phase before it exits.
C19_RunTerminatesInOneOutcome ==
    /\ <>Exited
    /\ [](Exited =>
            /\ OutcomeCount = 1
            /\ "wav" \in created => "cleanup" \in Range(trace))

C19_Witness == Exited /\ NoSpeechOutcome /\ "cleanup" \in Range(trace)

\* C20: within one run the audio recording, whisper, screencapture, OCR and
\* the API are each invoked at most once: no failure leads to a retry of
\* that stage or of an earlier one.
C20_NoRetry ==
    /\ \A c \in DOMAIN calls : calls[c] <= 1
    /\ \A k \in 1..Len(Pipeline) :
          Cardinality({i \in 1..Len(trace) : trace[i] = Pipeline[k]}) <= 1

C20_Witness == Exited /\ ApiFailed /\ calls["api"] = 1 /\ calls["whisper"] = 1

====
